---- MODULE Spec2Model ----
(***************************************************************************)
(* Model of the feature_engineering package:                               *)
(*   VoronoiDiagram            (voronoi_diagram.py)                        *)
(*   PlayerAwarenessCalculator (player_awareness.py)                       *)
(*   PlayerInfluenceCalculator (player_influence.py)                       *)
(*                                                                         *)
(* Numbers.  Coordinates are integers.  Polygon vertices and areas are     *)
(* exact rationals (numerator/denominator), so the geometry is the exact   *)
(* value of what scipy/shapely compute in floating point.  Angles are      *)
(* whole degrees (np.radians is the change of unit, 2*pi is 360); cosines  *)
(* and exponentials are fixed-point values.                                *)
(***************************************************************************)
EXTENDS Integers, Sequences, FiniteSets, TLC

VARIABLES
    bounding_box,   \* VoronoiDiagram.bounding_box: <<x_min, x_max, y_min, y_max>>
    vor,            \* VoronoiDiagram.vor: None or the cached tessellation
    last,           \* the last call made on the VoronoiDiagram and its outcome
    committed,      \* history: tessellation built by the latest compute that returned
    th,             \* the threads running compute_voronoi_areas concurrently
    sc              \* the last scorer call (awareness / influence) and its result

vars == <<bounding_box, vor, last, committed, th, sc>>

\* Python's None, as the value of self.vor before any tessellation is stored
None == [kind |-> "None", points |-> <<>>]

\* no exception
NoError == "-"

(***************************************************************************)
(* Bounds of the model.                                                    *)
(***************************************************************************)
MaxPoints == 3

(***************************************************************************)
(* Exact rational arithmetic.                                              *)
(***************************************************************************)
Abs(n) == IF n < 0 THEN -n ELSE n

RECURSIVE Gcd(_, _)
Gcd(a, b) == IF b = 0 THEN a ELSE Gcd(b, a % b)

\* the fraction n/d in lowest terms with a positive denominator
Frac(n, d) ==
    LET g == Gcd(Abs(n), Abs(d))
        s == IF d < 0 THEN -1 ELSE 1
    IN  <<(s * n) \div g, (s * d) \div g>>

FracAdd(p, q) == Frac(p[1] * q[2] + q[1] * p[2], p[2] * q[2])

Zero == <<0, 1>>

\* the point (X/D, Y/D) in lowest terms with D > 0
NormV(X, Y, D) ==
    LET g == Gcd(Gcd(Abs(X), Abs(Y)), Abs(D))
        s == IF D < 0 THEN -1 ELSE 1
    IN  <<(s * X) \div g, (s * Y) \div g, (s * D) \div g>>

(***************************************************************************)
(* compute_voronoi_areas, lines 15-26: the filter and the mirrored sites.  *)
(***************************************************************************)
\* variant of InBox: the test against x_min is left out
InBox_NoLowerX(bb, p) == p[1] <= bb[2] /\ p[2] >= bb[3] /\ p[2] <= bb[4]

InBox(bb, p) == p[1] >= bb[1] /\ p[1] <= bb[2] /\ p[2] >= bb[3] /\ p[2] <= bb[4]

\* in_box: the boolean mask aligned to the input order
in_box(bb, points) == [k \in 1..Len(points) |-> InBox(bb, points[k])]

\* np.where(in_box)[0]: the indices of the True entries, ascending
RECURSIVE WhereFrom(_, _)
WhereFrom(mask, k) ==
    IF k > Len(mask) THEN <<>>
    ELSE (IF mask[k] THEN <<k>> ELSE <<>>) \o WhereFrom(mask, k + 1)

Where(mask) == WhereFrom(mask, 1)

\* points[in_box]
filtered_points(bb, points) ==
    LET w == Where(in_box(bb, points))
    IN  [i \in 1..Len(w) |-> points[w[i]]]

\* variant of mirrored: the reflection across the top edge is left out
mirrored_NoTop(bb, fp) ==
    fp
    \o [i \in 1..Len(fp) |-> <<2 * bb[1] - fp[i][1], fp[i][2]>>]
    \o [i \in 1..Len(fp) |-> <<2 * bb[2] - fp[i][1], fp[i][2]>>]
    \o [i \in 1..Len(fp) |-> <<fp[i][1], 2 * bb[3] - fp[i][2]>>]

\* np.vstack of the filtered points and their four reflections
mirrored(bb, fp) ==
    fp
    \o [i \in 1..Len(fp) |-> <<2 * bb[1] - fp[i][1], fp[i][2]>>]
    \o [i \in 1..Len(fp) |-> <<2 * bb[2] - fp[i][1], fp[i][2]>>]
    \o [i \in 1..Len(fp) |-> <<fp[i][1], 2 * bb[3] - fp[i][2]>>]
    \o [i \in 1..Len(fp) |-> <<fp[i][1], 2 * bb[4] - fp[i][2]>>]

\* for each row of mirrored, the index in the input array of the point the row
\* was made from (w is np.where(in_box)[0]): the five blocks follow the filter
site_origin(w) == w \o w \o w \o w \o w

(***************************************************************************)
(* scipy.spatial.Voronoi(mirrored), line 29.  The tessellation is kept as  *)
(* its sites; the region of a site is the set of points at least as close  *)
(* to it as to every other site, the intersection of the half planes       *)
(*   2 (s - p) . x <= |s|^2 - |p|^2   over the other sites s.              *)
(***************************************************************************)
\* Qhull refuses an empty input ("No points given")
VoronoiRaises(sites) == Len(sites) = 0

Voronoi(sites) == [kind |-> "Voronoi", points |-> sites]

Cross(p, s, t) == (s[1] - p[1]) * (t[2] - p[2]) - (s[2] - p[2]) * (t[1] - p[1])

\* "-1 in region": the region of site k is unbounded, which is the case
\* exactly when the site lies on the boundary of the convex hull of the sites
RegionOpen(tess, k) ==
    LET S == tess.points
        p == S[k]
        I == 1..Len(S)
    IN  \/ \A j \in I : S[j] = p
        \/ \E j \in I :
              /\ S[j] # p
              /\ \/ \A t \in I : Cross(p, S[j], S[t]) >= 0
                 \/ \A t \in I : Cross(p, S[j], S[t]) <= 0

\* value of 2 (s - p) . v - (|s|^2 - |p|^2), times the denominator of v:
\* <= 0 when v is on p's side of the bisector of p and s
HalfPlaneValue(p, s, v) ==
      2 * (s[1] - p[1]) * v[1] + 2 * (s[2] - p[2]) * v[2]
    - (s[1] * s[1] + s[2] * s[2] - p[1] * p[1] - p[2] * p[2]) * v[3]

\* the convex polygon poly cut down to p's side of the bisector of p and s
ClipHalfPlane(poly, p, s) ==
    LET n == Len(poly)
        nxt(k) == IF k = n THEN 1 ELSE k + 1
        f(k) == HalfPlaneValue(p, s, poly[k])
        Cut(k) ==
            LET P == poly[k]
                Q == poly[nxt(k)]
            IN  NormV(f(k) * Q[1] - f(nxt(k)) * P[1],
                      f(k) * Q[2] - f(nxt(k)) * P[2],
                      f(k) * Q[3] - f(nxt(k)) * P[3])
        Out(k) ==
            (IF f(k) <= 0 THEN <<poly[k]>> ELSE <<>>)
            \o (IF \/ f(k) < 0 /\ f(nxt(k)) > 0
                   \/ f(k) > 0 /\ f(nxt(k)) < 0
                THEN <<Cut(k)>> ELSE <<>>)
        RECURSIVE Walk(_)
        Walk(k) == IF k > n THEN <<>> ELSE Out(k) \o Walk(k + 1)
    IN  IF n = 0 THEN <<>> ELSE Walk(1)

RECURSIVE ClipAll(_, _, _, _)
ClipAll(poly, p, S, j) ==
    IF j > Len(S) THEN poly
    ELSE ClipAll(IF S[j] = p THEN poly ELSE ClipHalfPlane(poly, p, S[j]), p, S, j + 1)

\* box_polygon, line 30
box_polygon(bb) ==
    << <<bb[1], bb[3], 1>>, <<bb[2], bb[3], 1>>, <<bb[2], bb[4], 1>>, <<bb[1], bb[4], 1>> >>

\* Polygon(vertices[region]).intersection(box_polygon) for a bounded region:
\* the box cut by every half plane of the region
clipped(bb, tess, k) == ClipAll(box_polygon(bb), tess.points[k], tess.points, 1)

\* polygon area by the shoelace formula, as a fraction
PolyArea(poly) ==
    LET n == Len(poly)
        nxt(k) == IF k = n THEN 1 ELSE k + 1
        Term(k) ==
            Frac(poly[k][1] * poly[nxt(k)][2] - poly[nxt(k)][1] * poly[k][2],
                 2 * poly[k][3] * poly[nxt(k)][3])
        RECURSIVE Sum(_)
        Sum(k) == IF k > n THEN Zero ELSE FracAdd(Term(k), Sum(k + 1))
    IN  IF n < 3 THEN Zero ELSE Sum(1)

\* variant of ScatterIndex: the position in the filtered array is used as is
ScatterIndex_Filtered(w, i) == i

\* the index of the output vector written for the i-th filtered point, line 40
ScatterIndex(w, i) == w[i]

\* the loop of lines 34-40 from iteration i on; w is np.where(in_box)[0]
RECURSIVE AreaLoop(_, _, _, _, _)
AreaLoop(bb, tess, w, areas, i) ==
    IF i > Len(w) THEN areas
    ELSE AreaLoop(bb, tess, w,
                  IF RegionOpen(tess, i) THEN areas
                  ELSE [areas EXCEPT ![ScatterIndex(w, i)] = PolyArea(clipped(bb, tess, i))],
                  i + 1)

\* compute_voronoi_areas(points) on an instance with box bb: what the call
\* computes, up to its return or to the exception that ends it
compute_voronoi_areas(bb, points) ==
    LET mask == in_box(bb, points)
        fp == filtered_points(bb, points)
        m == mirrored(bb, fp)
    IN  IF VoronoiRaises(m)
        THEN [outcome |-> "raised", raised_in |-> "scipy.spatial.Voronoi",
              tess |-> None, areas |-> <<>>, in_box |-> mask, mirrored |-> m,
              origin |-> site_origin(Where(mask))]
        ELSE [outcome |-> "returned", raised_in |-> NoError,
              tess |-> Voronoi(m),
              areas |-> AreaLoop(bb, Voronoi(m), Where(mask),
                                 [k \in 1..Len(points) |-> Zero], 1),
              in_box |-> mask, mirrored |-> m,
              origin |-> site_origin(Where(mask))]

\* variant of VorAfterCompute: a failed call clears the cache
VorAfterCompute_Reset(v, r) == r.tess

\* self.vor after the call: line 29 assigns it only when Voronoi(...) returned
VorAfterCompute(v, r) == IF r.outcome = "raised" THEN v ELSE r.tess

\* variant of PlotRaises: the guard is left out
PlotRaises_Never(v) == FALSE

\* the guard of plot_voronoi, line 48
PlotRaises(v) == v = None

(***************************************************************************)
(* Inputs of the model.                                                    *)
(***************************************************************************)
\* the rectangles an instance is constructed with (the default, 120 by 53.3,
\* is one more rectangle with x_min < x_max and y_min < y_max)
Boxes == { <<0, 10, 0, 10>>, <<0, 9, 0, 8>> }

\* the points the arrays are made of: three points inside the first rectangle,
\* of which <<9, 1>> is on the right edge of the second, and <<-1, 1>>, which is
\* left of both and is where <<1, 1>> is mirrored to
Grid == { <<1, 1>>, <<9, 1>>, <<4, 7>>, <<-1, 1>> }

SeqsUpTo(S, n) == UNION { [1..k -> S] : k \in 0..n }

PointArrays == SeqsUpTo(Grid, MaxPoints)

\* compute_voronoi_areas on every input of the model, evaluated once
ComputeTable ==
    [a \in Boxes \X PointArrays |-> compute_voronoi_areas(a[1], a[2])] @@ <<>>

NoCall ==
    [op |-> "init", points |-> <<>>, outcome |-> "returned", raised_in |-> NoError,
     areas |-> <<>>, in_box |-> <<>>, mirrored |-> <<>>, origin |-> <<>>,
     rendered |-> None]

\* no thread is running / no scorer call was made
ThIdle == <<>>
ScIdle == <<>>

(***************************************************************************)
(* One VoronoiDiagram instance used by one caller.                         *)
(***************************************************************************)
\* __init__, lines 9-11
Init ==
    /\ bounding_box \in Boxes
    /\ vor = None
    /\ last = NoCall
    /\ committed = None
    /\ th = ThIdle
    /\ sc = ScIdle

\* compute_voronoi_areas(points), lines 13-42; committed records the
\* tessellation of a call that returned
ComputeVoronoiAreas ==
    \E points \in PointArrays :
        LET r == ComputeTable[<<bounding_box, points>>]
        IN  /\ vor' = VorAfterCompute(vor, r)
            /\ last' = [op |-> "compute", points |-> points, outcome |-> r.outcome,
                        raised_in |-> r.raised_in, areas |-> r.areas,
                        in_box |-> r.in_box, mirrored |-> r.mirrored,
                        origin |-> r.origin, rendered |-> None]
            /\ committed' = IF r.outcome = "returned" THEN Voronoi(r.mirrored) ELSE committed
            /\ UNCHANGED <<bounding_box, th, sc>>

\* plot_voronoi(), lines 44-61: the guard, then the rendering of self.vor
PlotVoronoi ==
    /\ last' = IF PlotRaises(vor)
               THEN [NoCall EXCEPT !.op = "plot", !.outcome = "raised",
                                   !.raised_in = "plot_voronoi"]
               ELSE [NoCall EXCEPT !.op = "plot", !.rendered = vor]
    /\ UNCHANGED <<bounding_box, vor, committed, th, sc>>

Next == ComputeVoronoiAreas \/ PlotVoronoi

Spec == Init /\ [][Next]_vars

(***************************************************************************)
(* Two threads calling compute_voronoi_areas on one instance.  The call is *)
(* split where it touches self.vor: the store of line 29, the read of      *)
(* self.vor.point_region at line 34, of self.vor.regions at line 35 and of *)
(* self.vor.vertices at line 38.  Everything else is local to the call.    *)
(*                                                                         *)
(* A region read from one tessellation through a point_region entry of     *)
(* another, or looked up in the vertices of another, depends on Qhull's    *)
(* numbering of regions and vertices: the model lets it be any region of   *)
(* that tessellation, an area that belongs to no cell (Garbage), or an     *)
(* IndexError.                                                             *)
(***************************************************************************)
Threads == {1, 2}

\* the arrays the threads call with
ThreadArrays ==
    { << <<1, 1>>, <<9, 1>> >>,
      << <<-1, 1>>, <<4, 7>> >>,
      << <<4, 7>>, <<9, 1>>, <<1, 1>> >>,
      << <<-1, 1>> >> }

Garbage == <<-1, 1>>

NoRegion == [by |-> 0, tess |-> None, site |-> 0]

ThreadIdle ==
    [pc |-> "idle", points |-> <<>>, w |-> <<>>, sites |-> <<>>,
     list |-> <<>>, list_by |-> 0, list_n |-> 0, i |-> 0, region |-> NoRegion, areas |-> <<>>,
     outcome |-> NoError, raised_in |-> NoError,
     foreign |-> FALSE, clobbered |-> FALSE]

\* the area of the region of site k of a tessellation, cut to the rectangle,
\* for every tessellation the threads can build, evaluated once
CellTable ==
    [a \in { <<bb, pts>> \in Boxes \X ThreadArrays :
                ~VoronoiRaises(mirrored(bb, filtered_points(bb, pts))) } |->
        LET tess == Voronoi(mirrored(a[1], filtered_points(a[1], a[2])))
        IN  [k \in 1..Len(tess.points) |->
                [open |-> RegionOpen(tess, k),
                 area |-> PolyArea(clipped(a[1], tess, k))]]] @@ <<>>

InitThreads ==
    /\ bounding_box \in Boxes
    /\ vor = None
    /\ last = NoCall
    /\ committed = None
    \* run: the calls; writer: the thread whose call built the object now in
    \* self.vor; built: the rectangle and array each thread's object is built from
    /\ th = [run |-> [t \in Threads |-> ThreadIdle], writer |-> 0,
             built |-> [t \in Threads |-> <<>>]]
    /\ sc = ScIdle

Running(t) == th.run[t].pc \in {"loop_head", "region", "vertices"}

\* variant of StoredVor: the tessellation is built only when none is cached
StoredVor_Once(v, tess) == IF v = None THEN tess ELSE v

\* self.vor after the assignment of line 29
StoredVor(v, tess) == tess

\* lines 15-26: the call starts and builds its site array
ThreadCall(t) ==
    /\ th.run[t].pc = "idle"
    /\ \E points \in ThreadArrays :
          /\ \A u \in Threads \ {t} : th.run[u].points # points
          /\ th' = [th EXCEPT !.run[t] =
                      [ThreadIdle EXCEPT
                          !.pc = "voronoi",
                          !.points = points,
                          !.w = Where(in_box(bounding_box, points)),
                          !.sites = mirrored(bounding_box,
                                             filtered_points(bounding_box, points)),
                          !.areas = [k \in 1..Len(points) |-> Zero]]]
    /\ UNCHANGED <<bounding_box, vor, last, committed, sc>>

\* line 29: self.vor = Voronoi(mirrored)
ThreadStore(t) ==
    /\ th.run[t].pc = "voronoi"
    /\ IF VoronoiRaises(th.run[t].sites)
       THEN /\ th' = [th EXCEPT !.run[t].pc = "done",
                                !.run[t].outcome = "raised",
                                !.run[t].raised_in = "scipy.spatial.Voronoi"]
            /\ vor' = vor
       ELSE /\ vor' = StoredVor(vor, Voronoi(th.run[t].sites))
            /\ th' = [th EXCEPT
                        !.run = [u \in Threads |->
                                   IF u = t THEN [th.run[u] EXCEPT !.pc = "loop_head"]
                                   ELSE [th.run[u] EXCEPT
                                           !.clobbered = @ \/ Running(u)]],
                        !.writer = IF StoredVor(vor, Voronoi(th.run[t].sites))
                                        = Voronoi(th.run[t].sites)
                                   THEN t ELSE @,
                        !.built[t] = <<bounding_box, th.run[t].points>>]
    /\ UNCHANGED <<bounding_box, last, committed, sc>>

\* line 34: the iteration reads self.vor.point_region[:len(filtered_points)]
ThreadLoopHead(t) ==
    /\ th.run[t].pc = "loop_head"
    /\ LET n == IF Len(th.run[t].w) <= Len(vor.points)
                THEN Len(th.run[t].w) ELSE Len(vor.points)
       IN  th' = [th EXCEPT
                    !.run[t].list = [k \in 1..n |-> k],
                    !.run[t].list_by = th.writer,
                    !.run[t].list_n = Len(vor.points),
                    !.run[t].i = 1,
                    !.run[t].pc = IF n = 0 THEN "return" ELSE "region",
                    !.run[t].foreign = @ \/ th.writer # t]
    /\ UNCHANGED <<bounding_box, vor, last, committed, sc>>

\* the end of one iteration: the next one, or the end of the loop
Advance(r) ==
    [r EXCEPT !.i = @ + 1,
              !.region = NoRegion,
              !.pc = IF r.i + 1 > Len(r.list) THEN "return" ELSE "region"]

\* lines 35-37: region = self.vor.regions[region_index], from the tessellation
\* the list was read from
ThreadReadRegion(t) ==
    /\ th.run[t].pc = "region"
    /\ th.run[t].list_by = th.writer
    /\ LET r == [th.run[t] EXCEPT !.foreign = @ \/ th.writer # t]
           k == r.list[r.i]
       IN  th' = [th EXCEPT !.run[t] =
                    IF CellTable[th.built[th.writer]][k].open
                    THEN Advance(r)
                    ELSE [r EXCEPT !.pc = "vertices",
                                   !.region = [by |-> th.writer, tess |-> vor,
                                               site |-> k]]]
    /\ UNCHANGED <<bounding_box, vor, last, committed, sc>>

\* line 35 when self.vor is no longer the tessellation the list was read from:
\* region_index picks some region of the other tessellation
ThreadReadRegionMixed(t) ==
    /\ th.run[t].pc = "region"
    /\ th.run[t].list_by # th.writer
    /\ \E k \in 1..Len(vor.points) :
          LET r == [th.run[t] EXCEPT !.foreign = TRUE]
          IN  th' = [th EXCEPT !.run[t] =
                       IF CellTable[th.built[th.writer]][k].open
                       THEN Advance(r)
                       ELSE [r EXCEPT !.pc = "vertices",
                                      !.region = [by |-> th.writer, tess |-> vor,
                                                  site |-> k]]]
    /\ UNCHANGED <<bounding_box, vor, last, committed, sc>>

\* lines 35 and 38 when the index is past the end of the regions or vertices
\* of the tessellation now in self.vor, which can happen when that one is
\* smaller than the tessellation the index was read from
ThreadIndexError(t) ==
    /\ \/ /\ th.run[t].pc = "region"
          /\ th.run[t].list_by # th.writer
          /\ Len(vor.points) < th.run[t].list_n
       \/ /\ th.run[t].pc = "vertices"
          /\ th.run[t].region.by # th.writer
          /\ Len(vor.points) < Len(th.run[t].region.tess.points)
    /\ th' = [th EXCEPT !.run[t].pc = "done",
                        !.run[t].outcome = "raised",
                        !.run[t].raised_in = "compute_voronoi_areas",
                        !.run[t].foreign = TRUE]
    /\ UNCHANGED <<bounding_box, vor, last, committed, sc>>

\* lines 38-40: the polygon of the region from self.vor.vertices, cut to the
\* box, and its area written at np.where(in_box)[0][i]
ThreadReadVertices(t) ==
    /\ th.run[t].pc = "vertices"
    /\ LET r == th.run[t]
           area == IF r.region.by = th.writer
                   THEN CellTable[th.built[th.writer]][r.region.site].area
                   ELSE Garbage
       IN  th' = [th EXCEPT !.run[t] =
                    Advance([r EXCEPT
                               !.areas[ScatterIndex(r.w, r.i)] = area,
                               !.foreign = @ \/ th.writer # t])]
    /\ UNCHANGED <<bounding_box, vor, last, committed, sc>>

\* line 42
ThreadReturn(t) ==
    /\ th.run[t].pc = "return"
    /\ th' = [th EXCEPT !.run[t].pc = "done", !.run[t].outcome = "returned"]
    /\ UNCHANGED <<bounding_box, vor, last, committed, sc>>

NextThreads ==
    \E t \in Threads :
        \/ ThreadCall(t)
        \/ ThreadStore(t)
        \/ ThreadLoopHead(t)
        \/ ThreadReadRegion(t)
        \/ ThreadReadRegionMixed(t)
        \/ ThreadIndexError(t)
        \/ ThreadReadVertices(t)
        \/ ThreadReturn(t)

SpecThreads == InitThreads /\ [][NextThreads]_vars

(***************************************************************************)
(* PlayerAwarenessCalculator and PlayerInfluenceCalculator.                *)
(*                                                                         *)
(* Angles in radians are counted in units of pi/12 (15 degrees), so np.pi  *)
(* is 12 and np.radians(d) is d * pi / 180.  Cosines and exponentials are  *)
(* the values of np.cos and np.exp times 1000, rounded; alpha is counted   *)
(* in tenths and beta in thousandths.  A score is the integer product of   *)
(* its factors, which has the sign and the zeros of the code's product.    *)
(***************************************************************************)
Pi == 12

Min(a, b) == IF a <= b THEN a ELSE b
Max(a, b) == IF a >= b THEN a ELSE b

\* np.radians: degrees to radians
radians(deg) == (deg * Pi) \div 180

\* convert_angle, the same in both classes
convert_angle(angle) == ((Pi \div 2) - angle) % (2 * Pi)

\* np.arctan2(dy, dx), in (-pi, pi], for displacements along the axes and
\* the diagonals (the only ones the model's positions give)
arctan2(dy, dx) ==
    CASE dx = 0 /\ dy = 0 -> 0
      [] dx > 0 /\ dy = 0 -> 0
      [] dx > 0 /\ dy = dx -> Pi \div 4
      [] dx = 0 /\ dy > 0 -> Pi \div 2
      [] dx < 0 /\ dy = -dx -> 3 * (Pi \div 4)
      [] dx < 0 /\ dy = 0 -> Pi
      [] dx < 0 /\ dy = dx -> -3 * (Pi \div 4)
      [] dx = 0 /\ dy < 0 -> -(Pi \div 2)
      [] dx > 0 /\ dy = -dx -> -(Pi \div 4)

\* 1000 cos(k pi/12) for k = 0..6
CosTable == <<1000, 966, 866, 707, 500, 259, 0>>

\* np.cos, times 1000
cos(a) ==
    LET r == a % (2 * Pi)
        f == IF r > Pi THEN 2 * Pi - r ELSE r
    IN  IF f <= Pi \div 2 THEN CosTable[f + 1] ELSE -CosTable[Pi - f + 1]

\* np.exp(-beta * np.sqrt(d2)), times 1000, for the squared distances d2 the
\* model's positions give
exp_decay(beta, d2) ==
    CASE d2 = 0 -> 1000
      [] beta = 40 /\ d2 = 100 -> 670
      [] beta = 40 /\ d2 = 200 -> 568
      [] beta = 40 /\ d2 = 400 -> 449
      [] beta = 40 /\ d2 = 800 -> 323
      [] beta = 75 /\ d2 = 100 -> 472
      [] beta = 75 /\ d2 = 200 -> 346
      [] beta = 75 /\ d2 = 400 -> 223
      [] beta = 75 /\ d2 = 800 -> 120

\* PlayerAwarenessCalculator.__init__ with the default beta and alpha
AwarenessCalculator(field_of_view) ==
    [beta |-> 40, alpha |-> 1, field_of_view |-> radians(field_of_view \div 2)]

\* PlayerInfluenceCalculator.__init__ with its defaults
InfluenceCalculator == [beta |-> 75, alpha |-> 1]

\* lines 50-53 and 87-90: the angle offset as both awareness forms compute it
angle_offset(o, dy, dx) ==
    LET angle_to_target == convert_angle(arctan2(dy, dx))
        player_orientation == radians(o)
        offset == Abs(player_orientation - angle_to_target)
    IN  Min(offset, 2 * Pi - offset)

\* (1 + alpha s) exp(-beta distance) cos(angle_offset), lines 60 and 96-98
awareness_product(self, s, d2, offset) ==
    (10 + self.alpha * s) * exp_decay(self.beta, d2) * cos(offset)

\* variant of clamp: the floor at 0 is left out
clamp_None(v) == v

\* max(0, awareness), line 61, and np.maximum(0, awareness), line 104
clamp(v) == Max(0, v)

\* calculate_awareness(x, y, o, s, p_x, p_y)
calculate_awareness(self, x, y, o, s, p_x, p_y) ==
    LET dx == p_x - x
        dy == p_y - y
        offset == angle_offset(o, dy, dx)
    IN  IF offset > self.field_of_view THEN 0
        ELSE clamp(awareness_product(self, s, dx * dx + dy * dy, offset))

\* variant of in_fov_mask: the boundary of the cone is left out
in_fov_mask_Strict(self, offset) == offset < self.field_of_view

\* in_fov_mask, line 93
in_fov_mask(self, offset) == offset <= self.field_of_view

\* calculate_awareness_batch(positions, attributes, targets): attributes are
\* the rows [o, s]
calculate_awareness_batch(self, positions, attributes, targets) ==
    [i \in 1..Len(positions) |-> [j \in 1..Len(targets) |->
        LET dx == targets[j][1] - positions[i][1]
            dy == targets[j][2] - positions[i][2]
            offset == angle_offset(attributes[i][1], dy, dx)
            awareness == awareness_product(self, attributes[i][2],
                                           dx * dx + dy * dy, offset)
        IN  clamp(IF in_fov_mask(self, offset) THEN awareness ELSE 0)]]

\* the folded angle offsets of a batched call, one per pair
awareness_offsets(positions, attributes, targets) ==
    [i \in 1..Len(positions) |-> [j \in 1..Len(targets) |->
        angle_offset(attributes[i][1],
                     targets[j][2] - positions[i][2],
                     targets[j][1] - positions[i][1])]]

\* 2 + 0.7 cos(angle_dir) + 0.3 cos(angle_o), times 10000
influence_bracket(angle_dir, angle_o) ==
    20000 + 7 * cos(angle_dir) + 3 * cos(angle_o)

\* calculate_influence(x, y, dir, o, s, p_x, p_y)
calculate_influence(self, x, y, dir, o, s, p_x, p_y) ==
    LET dx == p_x - x
        dy == p_y - y
        angle_dir == radians(dir) - convert_angle(arctan2(dy, dx))
        angle_o == radians(o) - convert_angle(arctan2(dy, dx))
    IN  influence_bracket(angle_dir, angle_o) * (10 + self.alpha * s)
            * exp_decay(self.beta, dx * dx + dy * dy)

\* calculate_influence_batch(positions, attributes, targets): attributes are
\* the rows [dir, o, s]
calculate_influence_batch(self, positions, attributes, targets) ==
    [i \in 1..Len(positions) |-> [j \in 1..Len(targets) |->
        LET dx == targets[j][1] - positions[i][1]
            dy == targets[j][2] - positions[i][2]
            angle_to_target == convert_angle(arctan2(dy, dx))
            angle_dir == radians(attributes[i][1]) - angle_to_target
            angle_o == radians(attributes[i][2]) - angle_to_target
        IN  influence_bracket(angle_dir, angle_o)
                * (10 + self.alpha * attributes[i][3])
                * exp_decay(self.beta, dx * dx + dy * dy)]]

(***************************************************************************)
(* Inputs of the scorers.                                                  *)
(***************************************************************************)
MaxAgents == 2
MaxTargets == 2

\* the total field of view, in degrees, a calculator is constructed with
FieldsOfView == {180, 90}

AgentPositions == { <<0, 0>>, <<10, 10>> }

TargetPositions ==
    { <<0, 0>>, <<10, 10>>, <<10, 0>>, <<0, 10>>, <<20, 0>>, <<0, 20>>,
      <<20, 20>>, <<-10, -10>> }

\* orientations and headings in degrees, some negative, some of 360 or more
Orientations ==
    { -345, -90, -15, 0, 15, 45, 90, 135, 180, 270, 345, 360, 405, 720, 780 }

Headings == { -90, 0, 60, 135, 450 }

Speeds == { 0, 5 }

\* the agents of the batched calls: position, heading, orientation, speed
AgentPool ==
    { [pos |-> <<0, 0>>,   dir |-> 0,   o |-> 45,  s |-> 0],
      [pos |-> <<10, 10>>, dir |-> 135, o |-> 720, s |-> 5],
      [pos |-> <<0, 0>>,   dir |-> -90, o |-> -90, s |-> 5],
      [pos |-> <<10, 10>>, dir |-> 60,  o |-> 180, s |-> 0],
      [pos |-> <<0, 0>>,   dir |-> 450, o |-> 780, s |-> 0] }

\* the targets of the batched calls
TargetPool == { <<0, 10>>, <<10, 0>>, <<0, 0>>, <<20, 20>>, <<-10, -10>> }

ScStart(fov) ==
    [fov |-> fov, op |-> "idle", positions |-> <<>>, attributes |-> <<>>,
     targets |-> <<>>, matrix |-> <<>>, offsets |-> <<>>]

InitScore ==
    /\ bounding_box = <<0, 10, 0, 10>>
    /\ vor = None
    /\ last = NoCall
    /\ committed = None
    /\ th = ThIdle
    /\ \E fov \in FieldsOfView : sc = ScStart(fov)

\* a single-pair call is recorded as its one agent and one target, and its
\* value as a matrix of one entry
CalculateAwareness ==
    /\ sc.op = "idle"
    /\ \E pos \in AgentPositions, o \in Orientations, s \in Speeds,
         t \in TargetPositions :
          sc' = [sc EXCEPT
                   !.op = "calculate_awareness",
                   !.positions = <<pos>>, !.attributes = << <<o, s>> >>,
                   !.targets = <<t>>,
                   !.matrix = << <<calculate_awareness(AwarenessCalculator(sc.fov),
                                       pos[1], pos[2], o, s, t[1], t[2])>> >>,
                   !.offsets = << <<angle_offset(o, t[2] - pos[2], t[1] - pos[1])>> >>]
    /\ UNCHANGED <<bounding_box, vor, last, committed, th>>

CalculateAwarenessBatch ==
    /\ sc.op = "idle"
    /\ \E agents \in SeqsUpTo(AgentPool, MaxAgents),
         targets \in SeqsUpTo(TargetPool, MaxTargets) :
          LET positions == [i \in 1..Len(agents) |-> agents[i].pos]
              attributes == [i \in 1..Len(agents) |-> <<agents[i].o, agents[i].s>>]
          IN  sc' = [sc EXCEPT
                       !.op = "calculate_awareness_batch",
                       !.positions = positions, !.attributes = attributes,
                       !.targets = targets,
                       !.matrix = calculate_awareness_batch(
                                      AwarenessCalculator(sc.fov),
                                      positions, attributes, targets),
                       !.offsets = awareness_offsets(positions, attributes, targets)]
    /\ UNCHANGED <<bounding_box, vor, last, committed, th>>

CalculateInfluence ==
    /\ sc.op = "idle"
    /\ \E pos \in AgentPositions, dir \in Headings, o \in Orientations,
         s \in Speeds, t \in TargetPositions :
          sc' = [sc EXCEPT
                   !.op = "calculate_influence",
                   !.positions = <<pos>>, !.attributes = << <<dir, o, s>> >>,
                   !.targets = <<t>>,
                   !.matrix = << <<calculate_influence(InfluenceCalculator,
                                       pos[1], pos[2], dir, o, s, t[1], t[2])>> >>,
                   !.offsets = <<>>]
    /\ UNCHANGED <<bounding_box, vor, last, committed, th>>

CalculateInfluenceBatch ==
    /\ sc.op = "idle"
    /\ \E agents \in SeqsUpTo(AgentPool, MaxAgents),
         targets \in SeqsUpTo(TargetPool, MaxTargets) :
          LET positions == [i \in 1..Len(agents) |-> agents[i].pos]
              attributes == [i \in 1..Len(agents) |->
                                <<agents[i].dir, agents[i].o, agents[i].s>>]
          IN  sc' = [sc EXCEPT
                       !.op = "calculate_influence_batch",
                       !.positions = positions, !.attributes = attributes,
                       !.targets = targets,
                       !.matrix = calculate_influence_batch(
                                      InfluenceCalculator,
                                      positions, attributes, targets),
                       !.offsets = <<>>]
    /\ UNCHANGED <<bounding_box, vor, last, committed, th>>

\* the caller takes the result; the calculators keep nothing between calls
ScoreReturn ==
    /\ sc.op # "idle"
    /\ sc' = ScStart(sc.fov)
    /\ UNCHANGED <<bounding_box, vor, last, committed, th>>

NextScore ==
    \/ CalculateAwareness
    \/ CalculateAwarenessBatch
    \/ CalculateInfluence
    \/ CalculateInfluenceBatch
    \/ ScoreReturn

SpecScore == InitScore /\ [][NextScore]_vars

(***************************************************************************)
(* Properties of the VoronoiDiagram instance (specification Spec).         *)
(***************************************************************************)
Computed == last.op = "compute"
Returned == last.outcome = "returned"

\* a coordinate strictly below the minimum or strictly above the maximum
Outside(bb, p) == p[1] < bb[1] \/ p[1] > bb[2] \/ p[2] < bb[3] \/ p[2] > bb[4]

OnEdge(bb, p) ==
    /\ ~Outside(bb, p)
    /\ p[1] = bb[1] \/ p[1] = bb[2] \/ p[2] = bb[3] \/ p[2] = bb[4]

StrictlyInside(bb, p) == ~Outside(bb, p) /\ ~OnEdge(bb, p)

\* C1: plot_voronoi raises the invalid-state error and renders nothing when no
\* compute_voronoi_areas call on the instance has returned so far, and renders
\* (a tessellation) when one has.
C1_PlotRequiresComputed ==
    last.op = "plot" =>
        IF committed = None
        THEN last.outcome = "raised" /\ last.raised_in = "plot_voronoi"
             /\ last.rendered = None
        ELSE last.outcome = "returned" /\ last.rendered # None

C1_Witness == last.op = "plot" /\ last.outcome = "raised" /\ committed = None

\* C2: a point outside the rectangle gets area 0 and no row of the site array
\* passed to the tessellation is made from it (neither the point nor one of its
\* reflections); a point on an edge is inside: rows are made from it.
C2_OutsideExcluded ==
    Computed =>
        \A k \in 1..Len(last.points) :
            /\ Outside(bounding_box, last.points[k]) =>
                  /\ Returned => last.areas[k] = Zero
                  /\ \A r \in 1..Len(last.mirrored) : last.origin[r] # k
            /\ OnEdge(bounding_box, last.points[k]) =>
                  /\ Cardinality({r \in 1..Len(last.mirrored) : last.origin[r] = k}) = 5
                  /\ \E r \in 1..Len(last.mirrored) :
                        last.origin[r] = k /\ last.mirrored[r] = last.points[k]
            /\ Len(last.origin) = Len(last.mirrored)

C2_Witness ==
    /\ Computed /\ Returned
    /\ \E k \in 1..Len(last.points) : Outside(bounding_box, last.points[k])
    /\ \E k \in 1..Len(last.points) : OnEdge(bounding_box, last.points[k])
    /\ \E k \in 1..Len(last.points) : StrictlyInside(bounding_box, last.points[k])

\* C3: with fewer than two points inside the boundary the call fails with an
\* insufficient-points error raised by compute_voronoi_areas itself, before
\* the tessellation.
C3_InsufficientPointsError ==
    (Computed /\ Cardinality({k \in 1..Len(last.points) :
                                ~Outside(bounding_box, last.points[k])}) < 2)
        => last.outcome = "raised" /\ last.raised_in = "compute_voronoi_areas"

\* the area of the region of the i-th filtered point, cut to the rectangle
CellArea(bb, tess, i) ==
    IF RegionOpen(tess, i) THEN Zero ELSE PolyArea(clipped(bb, tess, i))

\* the number of points inside the rectangle among the first k
Rank(bb, points, k) == Cardinality({j \in 1..k : ~Outside(bb, points[j])})

\* C6: the result has one entry per input point, in input order: the entry of
\* an in-boundary point is the area computed for it (the Rank-th filtered
\* point), every other entry is 0.
C6_ScatterInInputOrder ==
    (Computed /\ Returned) =>
        /\ Len(last.areas) = Len(last.points)
        /\ \A k \in 1..Len(last.points) :
              last.areas[k] =
                  IF Outside(bounding_box, last.points[k]) THEN Zero
                  ELSE CellArea(bounding_box, vor, Rank(bounding_box, last.points, k))

\* an out-of-boundary point precedes an in-boundary one, and two in-boundary
\* points get different areas
C6_Witness ==
    /\ Computed /\ Returned
    /\ \E j, k \in 1..Len(last.points) :
          /\ j < k
          /\ Outside(bounding_box, last.points[j])
          /\ ~Outside(bounding_box, last.points[k])
          /\ last.areas[k] # Zero
    /\ \E j, k \in 1..Len(last.points) :
          /\ last.areas[j] # Zero /\ last.areas[k] # Zero
          /\ last.areas[j] # last.areas[k]

RECURSIVE SumFrom(_, _)
SumFrom(areas, k) ==
    IF k > Len(areas) THEN Zero ELSE FracAdd(areas[k], SumFrom(areas, k + 1))

BoxArea(bb) == <<(bb[2] - bb[1]) * (bb[4] - bb[3]), 1>>

\* C7: for distinct points all strictly inside the rectangle the areas sum to
\* the area of the rectangle; (1,1) and (9,1) in (0,10,0,10) get 50 each.
C7_AreasPartitionBox ==
    (Computed /\ Returned) =>
        /\ ( /\ \A k \in 1..Len(last.points) :
                   StrictlyInside(bounding_box, last.points[k])
             /\ \A j, k \in 1..Len(last.points) :
                   j # k => last.points[j] # last.points[k] )
           => SumFrom(last.areas, 1) = BoxArea(bounding_box)
        /\ ( bounding_box = <<0, 10, 0, 10>> /\ last.points = << <<1, 1>>, <<9, 1>> >> )
           => last.areas = << <<50, 1>>, <<50, 1>> >>

\* three distinct interior points, with cells of three different areas
C7_Witness ==
    /\ Computed /\ Returned
    /\ Len(last.points) = 3
    /\ \A k \in 1..3 : StrictlyInside(bounding_box, last.points[k])
    /\ Cardinality({last.areas[k] : k \in 1..3}) = 3
    /\ SumFrom(last.areas, 1) = BoxArea(bounding_box)

\* C9: a compute_voronoi_areas call that raises leaves the cache as it was:
\* the cache is always the tessellation built by the latest call that
\* returned (None when none has), and that is what plot_voronoi renders.
C9_FailedCallKeepsCache ==
    /\ vor = committed
    /\ (last.op = "plot" /\ Returned) => last.rendered = committed

\* a call has just raised on an instance that holds an earlier tessellation
C9_Witness == Computed /\ ~Returned /\ vor # None /\ vor = committed

(***************************************************************************)
(* Properties of concurrent calls (specification SpecThreads).             *)
(***************************************************************************)
\* what the call of thread t returns when it runs alone
Alone(t) == ComputeTable[<<bounding_box, th.run[t].points>>]

\* C10 as stated: under every interleaving each call ends as it would alone,
\* with the areas of its own tessellation, having read point_region, regions
\* and vertices only from the tessellation it stored itself.
C10_OwnTessellationOnly ==
    \A t \in Threads :
        th.run[t].pc = "done" =>
            /\ ~th.run[t].foreign
            /\ th.run[t].outcome = Alone(t).outcome
            /\ th.run[t].outcome = "returned" => th.run[t].areas = Alone(t).areas

\* C10 as amended: the same, for a call during which the other call does not
\* execute its assignment to self.vor (line 29) between this call's own
\* assignment and its last read of self.vor.
C10_OwnTessellationUnlessOverwritten ==
    \A t \in Threads :
        (th.run[t].pc = "done" /\ ~th.run[t].clobbered) =>
            /\ ~th.run[t].foreign
            /\ th.run[t].outcome = Alone(t).outcome
            /\ th.run[t].outcome = "returned" => th.run[t].areas = Alone(t).areas

\* both calls have returned areas, neither overwritten by the other
C10_Witness ==
    \A t \in Threads :
        /\ th.run[t].pc = "done" /\ th.run[t].outcome = "returned"
        /\ ~th.run[t].clobbered
        /\ \E k \in 1..Len(th.run[t].areas) : th.run[t].areas[k] # Zero

(***************************************************************************)
(* Properties of the scorers (specification SpecScore).                    *)
(***************************************************************************)
AwarenessCall == sc.op \in {"calculate_awareness", "calculate_awareness_batch"}
InfluenceCall == sc.op \in {"calculate_influence", "calculate_influence_batch"}

Pairs == (1..Len(sc.positions)) \X (1..Len(sc.targets))

\* C4: entry (i, j) of a batched call equals the single-pair call on agent i
\* and target j, for awareness and for influence, and the batched mask admits
\* a pair exactly when the single-pair form does not return 0 early.
C4_BatchEqualsSingle ==
    /\ sc.op = "calculate_awareness_batch" =>
          \A p \in Pairs :
              LET i == p[1]
                  j == p[2]
                  self == AwarenessCalculator(sc.fov)
              IN  /\ sc.matrix[i][j] =
                        calculate_awareness(self, sc.positions[i][1], sc.positions[i][2],
                                            sc.attributes[i][1], sc.attributes[i][2],
                                            sc.targets[j][1], sc.targets[j][2])
                  /\ in_fov_mask(self, sc.offsets[i][j])
                        <=> ~(sc.offsets[i][j] > self.field_of_view)
    /\ sc.op = "calculate_influence_batch" =>
          \A p \in Pairs :
              LET i == p[1]
                  j == p[2]
              IN  sc.matrix[i][j] =
                      calculate_influence(InfluenceCalculator,
                                          sc.positions[i][1], sc.positions[i][2],
                                          sc.attributes[i][1], sc.attributes[i][2],
                                          sc.attributes[i][3],
                                          sc.targets[j][1], sc.targets[j][2])

\* a 2 x 2 batched awareness call with a pair exactly on the edge of the cone
\* scored above 0, and a pair scored 0
C4_Witness ==
    /\ sc.op = "calculate_awareness_batch"
    /\ Len(sc.positions) = 2 /\ Len(sc.targets) = 2
    /\ sc.positions[1] # sc.positions[2] /\ sc.targets[1] # sc.targets[2]
    /\ \E p \in Pairs :
          /\ sc.offsets[p[1]][p[2]] = AwarenessCalculator(sc.fov).field_of_view
          /\ sc.matrix[p[1]][p[2]] > 0
    /\ \E p \in Pairs : sc.matrix[p[1]][p[2]] = 0

\* the bracket of the influence score of agent i and target j of the call
BracketOf(i, j) ==
    LET bearing == convert_angle(arctan2(sc.targets[j][2] - sc.positions[i][2],
                                         sc.targets[j][1] - sc.positions[i][1]))
    IN  influence_bracket(radians(sc.attributes[i][1]) - bearing,
                          radians(sc.attributes[i][2]) - bearing)

\* C5: every awareness score and every influence score, single-pair and
\* batched, is >= 0, and the influence bracket is within [1, 3].
C5_ScoresNonNegative ==
    /\ (AwarenessCall \/ InfluenceCall) =>
          \A p \in Pairs : sc.matrix[p[1]][p[2]] >= 0
    /\ InfluenceCall =>
          \A p \in Pairs : BracketOf(p[1], p[2]) >= 10000 /\ BracketOf(p[1], p[2]) <= 30000

\* an awareness call whose product is negative inside the cone test, floored
\* to 0
C5_Witness ==
    /\ sc.op = "calculate_awareness"
    /\ sc.offsets[1][1] <= AwarenessCalculator(sc.fov).field_of_view
    /\ awareness_product(AwarenessCalculator(sc.fov), sc.attributes[1][2],
                         (sc.targets[1][1] - sc.positions[1][1])
                             * (sc.targets[1][1] - sc.positions[1][1])
                         + (sc.targets[1][2] - sc.positions[1][2])
                             * (sc.targets[1][2] - sc.positions[1][2]),
                         sc.offsets[1][1]) < 0
    /\ sc.matrix[1][1] = 0

\* the shorter arc between the orientation o (degrees) and a bearing
TrueArc(o, bearing) ==
    LET d == (radians(o) - bearing) % (2 * Pi)
    IN  Min(d, 2 * Pi - d)

\* C8: in both awareness forms the folded angle offset compared with the half
\* field of view lies in [0, pi], for every orientation in degrees, so a
\* target is scored non-zero only when its shorter-arc angular distance from
\* the orientation is at most the half field of view.
C8_FoldedOffsetInRange ==
    AwarenessCall =>
        \A p \in Pairs :
            LET i == p[1]
                j == p[2]
                bearing == convert_angle(arctan2(sc.targets[j][2] - sc.positions[i][2],
                                                 sc.targets[j][1] - sc.positions[i][1]))
            IN  /\ sc.offsets[i][j] >= 0 /\ sc.offsets[i][j] <= Pi
                /\ sc.matrix[i][j] # 0 =>
                      TrueArc(sc.attributes[i][1], bearing)
                          <= AwarenessCalculator(sc.fov).field_of_view

====
